---- MODULE Spec2Model ----
(***************************************************************************)
(* amethyst-imgui, src/lib.rs: the input filter stage (ImguiInputSystem),  *)
(* its construction (ImguiInputSystemDesc::build) and the frame handle     *)
(* registry (CURRENT_UI, with, current_ui).                                *)
(*                                                                         *)
(* The specifications share the variables:                                 *)
(*   Spec          the input filter stage, its two event channels, the lock *)
(*   UiSpec        the frame handle registry                                *)
(*   TickSpec      the stages of a tick in the order the scheduler allows   *)
(*   LockSpec      the stage and the render pass contending for the lock    *)
(*   FairLockSpec  LockSpec under fair scheduling                           *)
(*   BuildSpec     build() called on a host state that holds a context      *)
(***************************************************************************)
EXTENDS Naturals, Sequences, FiniteSets

VARIABLES
    \* ----- host state the stage works on (lib.rs:44-49)
    input_events,          \* EventChannel<InputEvent<T>>: the append-only log
    winit_events,          \* EventChannel<Event>
    filtered_events,       \* EventChannel<FilteredInputEvent<T>>
    want_capture_mouse,    \* context.io().want_capture_mouse
    want_capture_keyboard, \* context.io().want_capture_keyboard
    lock,                  \* holder of the Mutex<ImguiState>
    \* ----- the stage (lib.rs:39-42) and the position of its run
    built,                 \* build() has returned the stage
    input_reader,          \* ReaderId<InputEvent<T>>: events consumed so far
    winit_reader,          \* ReaderId<Event>
    pc,                    \* where run() stands
    pending,               \* what is left of the iterator of line 58
    \* ----- history of the stage, for the properties
    input_base,            \* length of the input log when the reader was registered
    seen,                  \* per event the match of line 59 classified: was it written
    classified,            \* this run's last classified event and the flags it met
    capture_seen,          \* some event was classified while a capture flag was set
    read_count,            \* per input event: how many read() calls yielded it
    fresh,                 \* input events appended since the last read() of line 58
    ran,                   \* run() has returned at least once
    run_fresh,             \* this run: value of fresh when it made its read()
    run_got,               \* this run: number of events its read() yielded
    run_emitted,           \* this run: filtered events written
    \* ----- the frame handle registry (lib.rs:127-137)
    CURRENT_UI,            \* Option<imgui::Ui<'static>>
    in_frame,              \* the render pass is between frame-begin and frame-end
    frames,                \* frames begun so far
    with_log,              \* one entry per call of with()
    retained,              \* what a caller of current_ui() still holds
    used_after_withdraw,   \* a caller used a frame after it was withdrawn
    \* ----- the scheduler of the host (lib.rs:182-186)
    tick,                  \* number of the tick under way, 0 when ticks are not followed
    stage,                 \* per stage: "pending" or "done" in this tick
    flags_tick,            \* tick whose frame-begin computed the capture flags
    \* ----- the mutex and the render pass
    poisoned,              \* a holder of the Mutex<ImguiState> panicked
    render_pc,             \* where the render pass stands
    \* ----- the contexts build() made (lib.rs:100-117)
    context,               \* Arc<Mutex<ImguiState>> in the world: 0 for none
    created,               \* contexts created so far
    replaced               \* a context in the world was replaced by another

filter_vars == <<input_events, winit_events, filtered_events, want_capture_mouse,
                 want_capture_keyboard, lock, built, input_reader, winit_reader,
                 pc, pending, input_base, seen, classified, capture_seen,
                 read_count, fresh, ran, run_fresh, run_got, run_emitted>>

ui_vars == <<CURRENT_UI, in_frame, frames, with_log, retained,
            used_after_withdraw>>

sched_vars == <<tick, stage, flags_tick>>

lock_vars == <<poisoned, render_pc>>

build_vars == <<context, created, replaced>>

vars == <<filter_vars, ui_vars, sched_vars, lock_vars, build_vars>>

(***************************************************************************)
(* Bounds                                                                  *)
(***************************************************************************)
MaxEvents == 3
MaxFrames == 2
MaxWith == 3
MaxTicks == 2
MaxBuilds == 2

(***************************************************************************)
(* Values                                                                  *)
(***************************************************************************)
\* Option<T>
None == <<>>
Some(x) == <<x>>

\* The variants of amethyst's InputEvent the match of lines 59-74 names, and
\* two of those it leaves to the wildcard arm.
NamedKinds == {"MouseMoved", "MouseButtonPressed", "MouseButtonReleased",
               "MouseWheelMoved", "KeyPressed", "KeyReleased"}
WildcardKinds == {"KeyTyped", "CursorMoved"}
Kinds == NamedKinds \cup WildcardKinds

\* An input event: its variant and its payload. The payload (key code, button,
\* delta) is a stamp that differs from event to event, so that a copy, a loss
\* or a change of an event shows.
InputEvent(k, p) == [kind |-> k, payload |-> p]

\* FilteredInputEvent(input.clone()), lines 37, 65, 70, 73
FilteredInputEvent(input) == [inner |-> input]

\* Variants of the match with one slip each: the scroll event left out of the
\* first arm, the second arm testing the pointer flag, and a wildcard arm that
\* drops events while the GUI captures.
MatchArmWritesScrollUnnamed(input, capture_mouse, capture_keyboard) ==
    CASE input.kind \in {"MouseMoved", "MouseButtonPressed",
                         "MouseButtonReleased"}
            -> ~capture_mouse
      [] input.kind \in {"KeyPressed", "KeyReleased"}
            -> ~capture_keyboard
      [] OTHER -> TRUE

MatchArmWritesKeyOnMouseFlag(input, capture_mouse, capture_keyboard) ==
    CASE input.kind \in {"MouseMoved", "MouseButtonPressed",
                         "MouseButtonReleased", "MouseWheelMoved"}
            -> ~capture_mouse
      [] input.kind \in {"KeyPressed", "KeyReleased"}
            -> ~capture_mouse
      [] OTHER -> TRUE

MatchArmWritesWildcardFiltered(input, capture_mouse, capture_keyboard) ==
    CASE input.kind \in {"MouseMoved", "MouseButtonPressed",
                         "MouseButtonReleased", "MouseWheelMoved"}
            -> ~capture_mouse
      [] input.kind \in {"KeyPressed", "KeyReleased"}
            -> ~capture_keyboard
      [] OTHER -> ~(capture_mouse /\ capture_keyboard)

\* The guards of the three arms of the match, lines 59-74: TRUE when the arm
\* writes the event to filtered_events.
MatchArmWrites(input, capture_mouse, capture_keyboard) ==
    CASE input.kind \in {"MouseMoved", "MouseButtonPressed",
                         "MouseButtonReleased", "MouseWheelMoved"}
            -> ~capture_mouse
      [] input.kind \in {"KeyPressed", "KeyReleased"}
            -> ~capture_keyboard
      [] OTHER -> TRUE

\* A read that starts at the head of the channel whatever the reader says.
ChannelReadFromStart(channel, reader) == SubSeq(channel, 1, Len(channel))

\* EventChannel::read(&mut reader): the events appended since the reader's
\* last read, in order.
ChannelRead(channel, reader) == SubSeq(channel, reader + 1, Len(channel))

\* A read that leaves the reader where it was.
ReaderAfterReadStays(channel, reader) == reader

\* The reader after that read: at the tail of the channel.
ReaderAfterRead(channel, reader) == Len(channel)

\* A reader registered at the head of the channel: the backlog is replayed.
RegisterReaderAtHead(channel) == 0

\* EventChannel::register_reader(): a reader at the current tail.
RegisterReader(channel) == Len(channel)

\* A write that puts the event at the head of the channel.
SingleWriteAtHead(channel, input) == <<FilteredInputEvent(input)>> \o channel

\* filtered_events.single_write(FilteredInputEvent(input.clone())): the
\* wrapped copy goes to the tail of the channel.
SingleWrite(channel, input) == Append(channel, FilteredInputEvent(input))

\* The stages of a tick: the two event sources, the filter stage and the
\* render pass.
Stages == {"input_system", "window", "imgui_input_system", "render"}

\* A registration of the filter stage that names no dependency.
DependenciesNone(s) == {}

\* dispatcher.add(.., "imgui_input_system", &["input_system", "window"]),
\* lines 182-186: the stages that must have run in the tick before s may.
Dependencies(s) ==
    IF s = "imgui_input_system" THEN {"input_system", "window"} ELSE {}

\* A mutex that grants the guard to whoever asks.
MutexGrantsAlways(holder) == TRUE

\* Mutex::lock() returns when no guard is out.
MutexGrants(holder) == holder = "free"

\* A static that starts out holding a frame.
CurrentUiInitialSome == Some(0)

\* static mut CURRENT_UI: Option<imgui::Ui<'static>> = None, line 127
CurrentUiInitial == None

\* current_ui(), line 137: CURRENT_UI.as_ref(), a reference to the frame held
\* by the static, or None.
current_ui(cur) == cur

\* take() in place of as_ref(): the static is left empty.
CurrentUiAfterTake(cur) == None

\* as_ref() borrows: the static holds afterwards what it held before.
CurrentUiAfterRead(cur) == cur

\* A with() that calls f without looking at what current_ui() returned.
WithCallsUnchecked(cur) == <<current_ui(cur)>>

\* with(f), lines 129-135: the arguments of the calls of f it makes.
WithCalls(cur) ==
    IF current_ui(cur) # None THEN <<current_ui(cur)[1]>> ELSE <<>>

(***************************************************************************)
(* Init                                                                    *)
(***************************************************************************)
Init ==
    /\ input_events = <<>>
    /\ winit_events = <<>>
    /\ filtered_events = <<>>
    /\ want_capture_mouse = FALSE
    /\ want_capture_keyboard = FALSE
    /\ lock = "free"
    /\ built = FALSE
    /\ input_reader = 0
    /\ winit_reader = 0
    /\ pc = "idle"
    /\ pending = <<>>
    /\ input_base = 0
    /\ seen = <<>>
    /\ classified = None
    /\ capture_seen = FALSE
    /\ read_count = <<>>
    /\ fresh = 0
    /\ ran = FALSE
    /\ run_fresh = 0
    /\ run_got = 0
    /\ run_emitted = 0
    /\ CURRENT_UI = CurrentUiInitial
    /\ in_frame = FALSE
    /\ frames = 0
    /\ with_log = <<>>
    /\ retained = None
    /\ used_after_withdraw = FALSE
    /\ tick = 0
    /\ stage = [s \in Stages |-> "pending"]
    /\ flags_tick = 0
    /\ poisoned = FALSE
    /\ render_pc = "idle"
    /\ context = 0
    /\ created = 0
    /\ replaced = FALSE

(***************************************************************************)
(* The event sources: the stages "input_system" and "window" append to the  *)
(* channels. They hold the channels for writing, the filter stage holds     *)
(* them for reading (lines 46-47), so the host never runs them during run(). *)
(***************************************************************************)
AppendInputOf(K) ==
    /\ pc = "idle"
    /\ Len(input_events) + Len(winit_events) < MaxEvents
    /\ \E k \in K :
          input_events' = Append(input_events,
                                 InputEvent(k, Len(input_events) + 1))
    /\ read_count' = Append(read_count, 0)
    /\ fresh' = fresh + 1
    /\ UNCHANGED <<winit_events, filtered_events, want_capture_mouse,
                   want_capture_keyboard, lock, built, input_reader,
                   winit_reader, pc, pending, input_base, seen, classified, capture_seen, ran,
                   run_fresh, run_got, run_emitted>>
    /\ UNCHANGED <<ui_vars, sched_vars, lock_vars, build_vars>>

AppendInput == AppendInputOf(Kinds)

AppendWinit ==
    /\ pc = "idle"
    /\ Len(input_events) + Len(winit_events) < MaxEvents
    /\ winit_events' = Append(winit_events, Len(winit_events) + 1)
    /\ UNCHANGED <<input_events, filtered_events, want_capture_mouse,
                   want_capture_keyboard, lock, built, input_reader,
                   winit_reader, pc, pending, input_base, seen, classified, capture_seen, read_count,
                   fresh, ran, run_fresh, run_got, run_emitted>>
    /\ UNCHANGED <<ui_vars, sched_vars, lock_vars, build_vars>>

(***************************************************************************)
(* ImguiInputSystemDesc::build, lines 93-124                               *)
(***************************************************************************)
BuildStep ==
    /\ input_reader' = RegisterReader(input_events)
    /\ winit_reader' = RegisterReader(winit_events)
    /\ input_base' = Len(input_events)
    /\ fresh' = 0
    \* imgui::Context::create(): a new context captures nothing
    /\ want_capture_mouse' = FALSE
    /\ want_capture_keyboard' = FALSE
    \* world.insert(Arc::new(Mutex::new(ImguiState { .. }))), lines 114-117
    /\ created' = created + 1
    /\ context' = created + 1
    /\ replaced' = (replaced \/ context # 0)
    /\ lock' = "free"
    /\ built' = TRUE
    /\ UNCHANGED <<input_events, winit_events, filtered_events, pc, pending,
                   seen, classified, capture_seen, read_count, ran, run_fresh,
                   run_got, run_emitted>>
    /\ UNCHANGED <<ui_vars, sched_vars, lock_vars>>

\* The build of the stage by RenderImgui::on_build, lines 181-186
Build ==
    /\ ~built
    /\ BuildStep

\* build() called on a host state that already holds the context of an
\* earlier build: ImguiInputSystemDesc and build() are public, and a second
\* RenderImgui evaluates line 185 before the dispatcher sees the name again
BuildAgain ==
    /\ built
    /\ pc = "idle"
    /\ created < MaxBuilds
    /\ BuildStep

BuildNext ==
    \/ AppendInput
    \/ AppendWinit
    \/ Build
    \/ BuildAgain

BuildSpec == Init /\ [][BuildNext]_vars

(***************************************************************************)
(* Frame-begin of the render pass: takes the lock and lets the GUI library *)
(* recompute the capture flags.                                            *)
(***************************************************************************)
NewFrame ==
    /\ built
    /\ lock = "free"
    /\ \E m \in BOOLEAN, k \in BOOLEAN :
          /\ <<m, k>> # <<want_capture_mouse, want_capture_keyboard>>
          /\ want_capture_mouse' = m
          /\ want_capture_keyboard' = k
    /\ UNCHANGED <<input_events, winit_events, filtered_events, lock, built,
                   input_reader, winit_reader, pc, pending, input_base, seen, classified, capture_seen,
                   read_count, fresh, ran, run_fresh, run_got, run_emitted>>
    /\ UNCHANGED <<ui_vars, sched_vars, lock_vars, build_vars>>

(***************************************************************************)
(* ImguiInputSystem::run, lines 51-76                                      *)
(***************************************************************************)
\* line 52 with the poison error unwrapped into its guard: run() goes on
\* whatever happened to the last holder.
RunLockIgnoresPoison ==
    /\ built
    /\ pc = "idle"
    /\ MutexGrants(lock)
    /\ lock' = "imgui_input_system"
    /\ pc' = "winit"
    /\ UNCHANGED <<input_events, winit_events, filtered_events,
                   want_capture_mouse, want_capture_keyboard, built,
                   input_reader, winit_reader, pending, input_base, seen,
                   classified, capture_seen, read_count, fresh, ran,
                   run_fresh, run_got, run_emitted>>
    /\ UNCHANGED <<ui_vars, sched_vars, lock_vars, build_vars>>

\* line 52 with a guard that does not live past the statement: run() goes on
\* without the lock.
RunLockGuardDropped ==
    /\ built
    /\ pc = "idle"
    /\ MutexGrants(lock)
    /\ ~poisoned
    /\ pc' = "winit"
    /\ UNCHANGED <<input_events, winit_events, filtered_events,
                   want_capture_mouse, want_capture_keyboard, lock, built,
                   input_reader, winit_reader, pending, input_base, seen,
                   classified, capture_seen, read_count, fresh, ran,
                   run_fresh, run_got, run_emitted>>
    /\ UNCHANGED <<ui_vars, sched_vars, lock_vars, build_vars>>

\* lines 52-53: state_mutex.lock().unwrap()
RunLock ==
    /\ built
    /\ pc = "idle"
    /\ MutexGrants(lock)
    /\ ~poisoned
    /\ lock' = "imgui_input_system"
    /\ pc' = "winit"
    /\ UNCHANGED <<input_events, winit_events, filtered_events,
                   want_capture_mouse, want_capture_keyboard, built,
                   input_reader, winit_reader, pending, input_base, seen, classified, capture_seen,
                   read_count, fresh, ran, run_fresh, run_got, run_emitted>>
    /\ UNCHANGED <<ui_vars, sched_vars, lock_vars, build_vars>>

\* The loop of lines 55-57 with its body restored: every windowing event read
\* is handed to the GUI context, which takes the pointer for itself.
RunReadWinitForwards ==
    /\ pc = "winit"
    /\ winit_reader' = ReaderAfterRead(winit_events, winit_reader)
    /\ want_capture_mouse' =
          (want_capture_mouse \/ ChannelRead(winit_events, winit_reader) # <<>>)
    /\ pc' = "input"
    /\ UNCHANGED <<input_events, winit_events, filtered_events,
                   want_capture_keyboard, lock, built, input_reader, pending,
                   input_base, seen, classified, capture_seen, read_count,
                   fresh, ran, run_fresh, run_got, run_emitted>>
    /\ UNCHANGED <<ui_vars, sched_vars, lock_vars, build_vars>>

\* The loop of lines 55-57 reading through the reader of the input channel:
\* one marker shared by the two channels.
RunReadWinitSharedReader ==
    /\ pc = "winit"
    /\ input_reader' = ReaderAfterRead(winit_events, input_reader)
    /\ pc' = "input"
    /\ UNCHANGED <<input_events, winit_events, filtered_events,
                   want_capture_mouse, want_capture_keyboard, lock, built,
                   winit_reader, pending, input_base, seen, classified,
                   capture_seen, read_count, fresh, ran, run_fresh, run_got,
                   run_emitted>>
    /\ UNCHANGED <<ui_vars, sched_vars, lock_vars, build_vars>>

\* lines 55-57: the windowing events are read and dropped
RunReadWinit ==
    /\ pc = "winit"
    /\ winit_reader' = ReaderAfterRead(winit_events, winit_reader)
    /\ pc' = "input"
    /\ UNCHANGED <<input_events, winit_events, filtered_events,
                   want_capture_mouse, want_capture_keyboard, lock, built,
                   input_reader, pending, input_base, seen, classified, capture_seen, read_count, fresh,
                   ran, run_fresh, run_got, run_emitted>>
    /\ UNCHANGED <<ui_vars, sched_vars, lock_vars, build_vars>>

\* line 58: input_events.read(&mut self.input_reader)
RunReadInput ==
    /\ pc = "input"
    /\ pending' = ChannelRead(input_events, input_reader)
    /\ input_reader' = ReaderAfterRead(input_events, input_reader)
    /\ pc' = "filter"
    /\ read_count' = [i \in 1..Len(input_events) |->
                        IF i > Len(input_events) - Len(pending')
                        THEN read_count[i] + 1 ELSE read_count[i]]
    /\ run_fresh' = fresh
    /\ run_got' = Len(pending')
    /\ run_emitted' = 0
    /\ fresh' = 0
    /\ UNCHANGED <<input_events, winit_events, filtered_events,
                   want_capture_mouse, want_capture_keyboard, lock, built,
                   winit_reader, input_base, seen, classified, capture_seen,
                   ran>>
    /\ UNCHANGED <<ui_vars, sched_vars, lock_vars, build_vars>>

\* lines 59-74: one turn of the loop
RunFilter ==
    /\ pc = "filter"
    /\ pending # <<>>
    /\ LET input == Head(pending)
           writes == MatchArmWrites(input, want_capture_mouse,
                                    want_capture_keyboard)
       IN  /\ filtered_events' =
                 IF writes
                 THEN SingleWrite(filtered_events, input)
                 ELSE filtered_events
           /\ run_emitted' = IF writes THEN run_emitted + 1 ELSE run_emitted
           /\ seen' = Append(seen, [event |-> input, written |-> writes])
           /\ classified' = Some([event |-> input,
                                  capture_mouse |-> want_capture_mouse,
                                  capture_keyboard |-> want_capture_keyboard])
    /\ capture_seen' = (capture_seen \/ want_capture_mouse
                                     \/ want_capture_keyboard)
    /\ pending' = Tail(pending)
    /\ UNCHANGED <<input_events, winit_events, want_capture_mouse,
                   want_capture_keyboard, lock, built, input_reader,
                   winit_reader, pc, input_base, read_count, fresh, ran,
                   run_fresh, run_got>>
    /\ UNCHANGED <<ui_vars, sched_vars, lock_vars, build_vars>>

\* A run() that returns with its guard leaked: the mutex stays locked.
RunUnlockKeepsLock ==
    /\ pc = "filter"
    /\ pending = <<>>
    /\ pc' = "idle"
    /\ classified' = None
    /\ run_fresh' = 0
    /\ run_got' = 0
    /\ run_emitted' = 0
    /\ ran' = TRUE
    /\ UNCHANGED <<input_events, winit_events, filtered_events,
                   want_capture_mouse, want_capture_keyboard, lock, built,
                   input_reader, winit_reader, pending, input_base, seen,
                   capture_seen, read_count, fresh>>
    /\ UNCHANGED <<ui_vars, lock_vars, build_vars>>

\* line 76: the guard of line 52 goes out of scope and run() returns
RunUnlockStep ==
    /\ pc = "filter"
    /\ pending = <<>>
    /\ lock' = "free"
    /\ pc' = "idle"
    /\ classified' = None
    /\ run_fresh' = 0
    /\ run_got' = 0
    /\ run_emitted' = 0
    /\ ran' = TRUE
    /\ UNCHANGED <<input_events, winit_events, filtered_events,
                   want_capture_mouse, want_capture_keyboard, built,
                   input_reader, winit_reader, pending, input_base, seen,
                   capture_seen, read_count, fresh>>
    /\ UNCHANGED <<ui_vars, lock_vars, build_vars>>

RunUnlock ==
    /\ RunUnlockStep
    /\ UNCHANGED sched_vars

(***************************************************************************)
(* The frame handle registry, lines 127-137. The render pass publishes the *)
(* frame it begins and withdraws it when the frame ends.                   *)
(***************************************************************************)
\* publish(frame): frame-begin of the render pass
Publish ==
    /\ ~in_frame
    /\ frames < MaxFrames
    /\ frames' = frames + 1
    /\ CURRENT_UI' = Some(frames + 1)
    /\ in_frame' = TRUE
    /\ UNCHANGED <<with_log, retained, used_after_withdraw>>
    /\ UNCHANGED <<filter_vars, sched_vars, lock_vars, build_vars>>

\* withdraw(): frame-end of the render pass
Withdraw ==
    /\ in_frame
    /\ CURRENT_UI' = None
    /\ in_frame' = FALSE
    /\ UNCHANGED <<frames, with_log, retained, used_after_withdraw>>
    /\ UNCHANGED <<filter_vars, sched_vars, lock_vars, build_vars>>

\* with(f), lines 129-135, called from anywhere in the application
With ==
    /\ Len(with_log) < MaxWith
    /\ CURRENT_UI' = CurrentUiAfterRead(CURRENT_UI)
    /\ with_log' = Append(with_log, [ui |-> CURRENT_UI,
                                     called |-> WithCalls(CURRENT_UI),
                                     after |-> CURRENT_UI'])
    /\ UNCHANGED <<in_frame, frames, retained, used_after_withdraw>>
    /\ UNCHANGED <<filter_vars, sched_vars, lock_vars, build_vars>>

\* pub unsafe fn current_ui<'a>(), line 137, called by the application: the
\* caller chooses 'a and keeps what it got.
CurrentUi ==
    /\ retained' = current_ui(CURRENT_UI)
    /\ retained' # retained
    /\ CURRENT_UI' = CurrentUiAfterRead(CURRENT_UI)
    /\ UNCHANGED <<in_frame, frames, with_log, used_after_withdraw>>
    /\ UNCHANGED <<filter_vars, sched_vars, lock_vars, build_vars>>

\* The caller of current_ui() uses the reference it kept.
UseRetained ==
    /\ retained # None
    /\ ~used_after_withdraw
    /\ used_after_withdraw' = (retained # CURRENT_UI)
    /\ retained' = None
    /\ UNCHANGED <<CURRENT_UI, in_frame, frames, with_log>>
    /\ UNCHANGED <<filter_vars, sched_vars, lock_vars, build_vars>>

Next ==
    \/ AppendInput
    \/ AppendWinit
    \/ Build
    \/ NewFrame
    \/ RunLock
    \/ RunReadWinit
    \/ RunReadInput
    \/ RunFilter
    \/ RunUnlock

Spec == Init /\ [][Next]_vars

UiNext ==
    \/ Publish
    \/ Withdraw
    \/ With
    \/ CurrentUi
    \/ UseRetained

UiSpec == Init /\ [][UiNext]_vars

(***************************************************************************)
(* The ticks of the host. In every tick each stage runs once, a stage only *)
(* after the stages it was registered to depend on (lines 182-186).        *)
(***************************************************************************)
\* The scheduler may start stage s: it has not run in this tick and the
\* stages it depends on have.
MayRun(s) ==
    /\ tick >= 1
    /\ stage[s] = "pending"
    /\ \A d \in Dependencies(s) : stage[d] = "done"

\* A tick begins: the first one when the stage is built, the next ones when
\* every stage of the tick has run.
TickBegin ==
    /\ built
    /\ tick < MaxTicks
    /\ tick = 0 \/ \A s \in Stages : stage[s] = "done"
    /\ tick' = tick + 1
    /\ stage' = [s \in Stages |-> "pending"]
    /\ UNCHANGED flags_tick
    /\ UNCHANGED <<filter_vars, ui_vars, lock_vars, build_vars>>

\* "input_system" at work: it appends an input event
TickAppendInput ==
    /\ MayRun("input_system")
    /\ AppendInput

\* "window" at work: it appends a windowing event
TickAppendWinit ==
    /\ MayRun("window")
    /\ AppendWinit

\* An event source has run
TickSourceDone ==
    /\ pc = "idle"
    /\ \E s \in {"input_system", "window"} :
          /\ MayRun(s)
          /\ stage' = [stage EXCEPT ![s] = "done"]
    /\ UNCHANGED <<tick, flags_tick>>
    /\ UNCHANGED <<filter_vars, ui_vars, lock_vars, build_vars>>

\* "imgui_input_system" is started: run() begins
TickRunLock ==
    /\ MayRun("imgui_input_system")
    /\ RunLock

\* run() returns: "imgui_input_system" has run
TickRunUnlock ==
    /\ RunUnlockStep
    /\ stage' = [stage EXCEPT !["imgui_input_system"] = "done"]
    /\ UNCHANGED <<tick, flags_tick>>

\* The render pass of the tick: its frame-begin takes the lock and computes
\* the capture flags of this frame.
TickRender ==
    /\ MayRun("render")
    /\ MutexGrants(lock)
    /\ \E m \in BOOLEAN, k \in BOOLEAN :
          /\ want_capture_mouse' = m
          /\ want_capture_keyboard' = k
    /\ flags_tick' = tick
    /\ stage' = [stage EXCEPT !["render"] = "done"]
    /\ UNCHANGED tick
    /\ UNCHANGED <<input_events, winit_events, filtered_events, lock, built,
                   input_reader, winit_reader, pc, pending, input_base, seen,
                   classified, capture_seen, read_count, fresh, ran,
                   run_fresh, run_got, run_emitted>>
    /\ UNCHANGED <<ui_vars, lock_vars, build_vars>>

TickNext ==
    \/ Build
    \/ TickBegin
    \/ TickAppendInput
    \/ TickAppendWinit
    \/ TickSourceDone
    \/ TickRunLock
    \/ RunReadWinit
    \/ RunReadInput
    \/ RunFilter
    \/ TickRunUnlock
    \/ TickRender

TickSpec == Init /\ [][TickNext]_vars

(***************************************************************************)
(* The stage and the render pass contending for the Mutex<ImguiState>. The *)
(* host may run the two in parallel; each takes the lock for its access.   *)
(***************************************************************************)
\* One pointer kind, one keyboard kind and one kind of the wildcard arm
LockKinds == {"MouseMoved", "KeyPressed", "KeyTyped"}

LockAppendInput ==
    /\ built
    /\ AppendInputOf(LockKinds)

LockAppendWinit ==
    /\ built
    /\ AppendWinit

\* line 52 on a poisoned mutex: lock() returns the error and unwrap() panics,
\* before any statement of run() was reached
RunLockPoisoned ==
    /\ built
    /\ pc = "idle"
    /\ MutexGrants(lock)
    /\ poisoned
    /\ pc' = "panicked"
    /\ UNCHANGED <<input_events, winit_events, filtered_events,
                   want_capture_mouse, want_capture_keyboard, lock, built,
                   input_reader, winit_reader, pending, input_base, seen,
                   classified, capture_seen, read_count, fresh, ran,
                   run_fresh, run_got, run_emitted>>
    /\ UNCHANGED <<ui_vars, sched_vars, lock_vars, build_vars>>

\* The panic has left run(); the host calls it again in the next tick
RunAborted ==
    /\ pc = "panicked"
    /\ pc' = "idle"
    /\ UNCHANGED <<input_events, winit_events, filtered_events,
                   want_capture_mouse, want_capture_keyboard, lock, built,
                   input_reader, winit_reader, pending, input_base, seen,
                   classified, capture_seen, read_count, fresh, ran,
                   run_fresh, run_got, run_emitted>>
    /\ UNCHANGED <<ui_vars, sched_vars, lock_vars, build_vars>>

\* The render pass asks for the context
RenderRequest ==
    /\ built
    /\ render_pc = "idle"
    /\ render_pc' = "waiting"
    /\ UNCHANGED poisoned
    /\ UNCHANGED <<filter_vars, ui_vars, sched_vars, build_vars>>

\* It gets the guard
RenderLock ==
    /\ render_pc = "waiting"
    /\ MutexGrants(lock)
    /\ ~poisoned
    /\ lock' = "render"
    /\ render_pc' = "holding"
    /\ UNCHANGED poisoned
    /\ UNCHANGED <<input_events, winit_events, filtered_events,
                   want_capture_mouse, want_capture_keyboard, built,
                   input_reader, winit_reader, pc, pending, input_base, seen,
                   classified, capture_seen, read_count, fresh, ran,
                   run_fresh, run_got, run_emitted>>
    /\ UNCHANGED <<ui_vars, sched_vars, build_vars>>

\* It gets the poison error: no GUI for this frame
RenderLockPoisoned ==
    /\ render_pc = "waiting"
    /\ MutexGrants(lock)
    /\ poisoned
    /\ render_pc' = "idle"
    /\ UNCHANGED poisoned
    /\ UNCHANGED <<filter_vars, ui_vars, sched_vars, build_vars>>

\* Frame-begin under the guard: the GUI library computes the capture flags
RenderNewFrame ==
    /\ render_pc = "holding"
    /\ \E m \in BOOLEAN, k \in BOOLEAN :
          /\ want_capture_mouse' = m
          /\ want_capture_keyboard' = k
    /\ render_pc' = "framed"
    /\ UNCHANGED poisoned
    /\ UNCHANGED <<input_events, winit_events, filtered_events, lock, built,
                   input_reader, winit_reader, pc, pending, input_base, seen,
                   classified, capture_seen, read_count, fresh, ran,
                   run_fresh, run_got, run_emitted>>
    /\ UNCHANGED <<ui_vars, sched_vars, build_vars>>

\* The render pass is done with the context: its guard is dropped
RenderUnlock ==
    /\ render_pc = "framed"
    /\ lock' = "free"
    /\ render_pc' = "idle"
    /\ UNCHANGED poisoned
    /\ UNCHANGED <<input_events, winit_events, filtered_events,
                   want_capture_mouse, want_capture_keyboard, built,
                   input_reader, winit_reader, pc, pending, input_base, seen,
                   classified, capture_seen, read_count, fresh, ran,
                   run_fresh, run_got, run_emitted>>
    /\ UNCHANGED <<ui_vars, sched_vars, build_vars>>

\* The render pass panics while it holds the guard: the guard is dropped by
\* the unwinding and the mutex is poisoned
RenderPanic ==
    /\ render_pc \in {"holding", "framed"}
    /\ lock' = "free"
    /\ render_pc' = "idle"
    /\ poisoned' = TRUE
    /\ UNCHANGED <<input_events, winit_events, filtered_events,
                   want_capture_mouse, want_capture_keyboard, built,
                   input_reader, winit_reader, pc, pending, input_base, seen,
                   classified, capture_seen, read_count, fresh, ran,
                   run_fresh, run_got, run_emitted>>
    /\ UNCHANGED <<ui_vars, sched_vars, build_vars>>

LockNext ==
    \/ Build
    \/ LockAppendInput
    \/ LockAppendWinit
    \/ RunLock
    \/ RunLockPoisoned
    \/ RunAborted
    \/ RunReadWinit
    \/ RunReadInput
    \/ RunFilter
    \/ RunUnlock
    \/ RenderRequest
    \/ RenderLock
    \/ RenderLockPoisoned
    \/ RenderNewFrame
    \/ RenderUnlock
    \/ RenderPanic

LockSpec == Init /\ [][LockNext]_vars

\* Fair scheduling: a party that has started goes on, and a party waiting for
\* the mutex gets it if it is free again and again.
FairLockSpec ==
    /\ Init
    /\ [][LockNext]_vars
    /\ WF_vars(RunReadWinit)
    /\ WF_vars(RunReadInput)
    /\ WF_vars(RunFilter)
    /\ WF_vars(RunUnlock)
    /\ WF_vars(RunAborted)
    /\ SF_vars(RenderLock \/ RenderLockPoisoned)
    /\ WF_vars(RenderNewFrame \/ RenderPanic)
    /\ WF_vars(RenderUnlock \/ RenderPanic)

(***************************************************************************)
(* Properties                                                              *)
(***************************************************************************)
PointerKinds == {"MouseMoved", "MouseButtonPressed", "MouseButtonReleased",
                 "MouseWheelMoved"}
KeyboardKinds == {"KeyPressed", "KeyReleased"}

\* The events of the filtered stream, unwrapped
Unwrapped == [i \in DOMAIN filtered_events |-> filtered_events[i].inner]

\* How often e occurs in the sequence s
Occurrences(s, e) == Cardinality({i \in DOMAIN s : s[i] = e})

\* e is, field for field, the event the input stream holds at its position
Unmodified(e) ==
    /\ e.payload \in DOMAIN input_events
    /\ input_events[e.payload] = e

\* The filtered events of the kinds K stand in the order of the input stream
InputOrder(K) ==
    \A i, j \in DOMAIN filtered_events :
        (/\ i < j
         /\ Unwrapped[i].kind \in K
         /\ Unwrapped[j].kind \in K)
        => Unwrapped[i].payload < Unwrapped[j].payload

\* Of the events of the kinds K that were classified, those decided to be
\* written are in the filtered stream once and unmodified, the others are not
\* in it; and every filtered event of these kinds was classified.
OnceOrAbsent(K) ==
    /\ \A i \in DOMAIN seen :
          seen[i].event.kind \in K =>
              /\ Occurrences(Unwrapped, seen[i].event) =
                     (IF seen[i].written THEN 1 ELSE 0)
              /\ Unmodified(seen[i].event)
    /\ \A i \in DOMAIN filtered_events :
          Unwrapped[i].kind \in K =>
              \E j \in DOMAIN seen : seen[j].event = Unwrapped[i]

\* The event this run classified last, and the decision taken on it
LastClassified == classified[1]
LastDecision == seen[Len(seen)]

\* C1: a pointer event is suppressed iff want_capture_mouse is set when it is
\* classified: it is then absent from the filtered stream, and otherwise in it
\* exactly once, unmodified, in the order of the input stream.
C1_PointerEvents ==
    /\ (classified # None /\ LastClassified.event.kind \in PointerKinds) =>
          /\ LastDecision.event = LastClassified.event
          /\ LastDecision.written = ~LastClassified.capture_mouse
          /\ LastClassified.capture_mouse =>
                Occurrences(Unwrapped, LastClassified.event) = 0
          /\ ~LastClassified.capture_mouse =>
                /\ Occurrences(Unwrapped, LastClassified.event) = 1
                /\ filtered_events[Len(filtered_events)] =
                       FilteredInputEvent(LastClassified.event)
    /\ OnceOrAbsent(PointerKinds)
    /\ InputOrder(PointerKinds)

\* C1 witness: of two pointer events classified so far one was suppressed and
\* the scroll event just classified, with the flag clear, was written.
C1_Witness ==
    /\ classified # None
    /\ LastClassified.event.kind = "MouseWheelMoved"
    /\ ~LastClassified.capture_mouse
    /\ Len(filtered_events) = 1
    /\ Unwrapped[1] = LastClassified.event
    /\ \E i \in DOMAIN seen :
          seen[i].event.kind \in PointerKinds /\ ~seen[i].written

\* The scenario of C2: a run that read [pointer-move, key-press,
\* pointer-button-press] with capture-mouse set and capture-keyboard clear
\* leaves the key press alone in the filtered stream.
C2_Scenario ==
    (/\ pc = "filter"
     /\ pending = <<>>
     /\ run_got = 3
     /\ Len(seen) = 3
     /\ seen[1].event.kind = "MouseMoved"
     /\ seen[2].event.kind = "KeyPressed"
     /\ seen[3].event.kind = "MouseButtonPressed"
     /\ want_capture_mouse
     /\ ~want_capture_keyboard)
    => filtered_events = <<FilteredInputEvent(seen[2].event)>>

\* C2: a keyboard event is suppressed iff want_capture_keyboard is set when it
\* is classified, whatever want_capture_mouse is; otherwise it is in the
\* filtered stream exactly once, unmodified, in input order. With
\* capture-mouse set and capture-keyboard clear, the input
\* [pointer-move, key-press, pointer-button-press] yields [key-press].
C2_KeyboardEvents ==
    /\ (classified # None /\ LastClassified.event.kind \in KeyboardKinds) =>
          /\ LastDecision.event = LastClassified.event
          /\ LastDecision.written = ~LastClassified.capture_keyboard
          /\ LastClassified.capture_keyboard =>
                Occurrences(Unwrapped, LastClassified.event) = 0
          /\ ~LastClassified.capture_keyboard =>
                /\ Occurrences(Unwrapped, LastClassified.event) = 1
                /\ filtered_events[Len(filtered_events)] =
                       FilteredInputEvent(LastClassified.event)
    /\ OnceOrAbsent(KeyboardKinds)
    /\ InputOrder(KeyboardKinds)
    /\ C2_Scenario

\* C2 witness: the scenario has run to its end.
C2_Witness ==
    /\ pc = "filter"
    /\ pending = <<>>
    /\ run_got = 3
    /\ [i \in 1..3 |-> seen[i].event.kind] =
           <<"MouseMoved", "KeyPressed", "MouseButtonPressed">>
    /\ want_capture_mouse
    /\ ~want_capture_keyboard
    /\ filtered_events = <<FilteredInputEvent(InputEvent("KeyPressed", 2))>>

\* C3: an event that is neither a pointer nor a keyboard event is written to
\* the filtered stream exactly once, whatever the two capture flags are.
C3_OtherEvents ==
    /\ (classified # None
        /\ LastClassified.event.kind \notin PointerKinds \cup KeyboardKinds) =>
          /\ LastDecision.event = LastClassified.event
          /\ LastDecision.written
          /\ Occurrences(Unwrapped, LastClassified.event) = 1
          /\ filtered_events[Len(filtered_events)] =
                 FilteredInputEvent(LastClassified.event)
    /\ \A i \in DOMAIN seen :
          seen[i].event.kind \notin PointerKinds \cup KeyboardKinds =>
              seen[i].written
    /\ OnceOrAbsent(Kinds \ (PointerKinds \cup KeyboardKinds))

\* C3 witness: two such events went through, the first with both flags clear
\* (nothing had been classified under a set flag), the second with both set.
C3_Witness ==
    /\ classified # None
    /\ Len(seen) = 2
    /\ seen[1].event.kind = "CursorMoved"
    /\ LastClassified.event.kind = "KeyTyped"
    /\ LastClassified.capture_mouse
    /\ LastClassified.capture_keyboard
    /\ Len(filtered_events) = 2
    /\ Unwrapped[2] = LastClassified.event


\* The events classified so far, in the order of their classification
SeenEvents == [i \in DOMAIN seen |-> seen[i].event]

IsWritten(entry) == entry.written

\* The events classified so far that were not suppressed, in that order
SeenWritten ==
    LET kept == SelectSeq(seen, IsWritten)
    IN  [i \in DOMAIN kept |-> kept[i].event]

\* The rule of suppression: pointer kinds on the pointer flag, keyboard kinds
\* on the keyboard flag, nothing else.
ShouldSuppress(c) ==
    \/ c.event.kind \in PointerKinds /\ c.capture_mouse
    \/ c.event.kind \in KeyboardKinds /\ c.capture_keyboard

\* C4: the filtered stream is exactly the non-suppressed input events in the
\* order of the input stream, within a tick and across ticks; when run()
\* returns, every event appended before it read the stream was classified;
\* and as long as no capture flag was set at any classification the filtered
\* stream is the input stream read so far, event for event.
C4_FifoOutput ==
    /\ Unwrapped = SeenWritten
    /\ classified # None =>
          LastDecision.written = ~ShouldSuppress(LastClassified)
    /\ SeenEvents \o pending =
           SubSeq(input_events, input_base + 1, input_reader)
    /\ pc = "idle" =>
          /\ pending = <<>>
          /\ input_reader + fresh = Len(input_events)
    /\ pc = "filter" => input_reader = Len(input_events)
    /\ ~capture_seen =>
          /\ Len(filtered_events) = Len(seen)
          /\ Unwrapped = SeenEvents

\* C4 witness: three events went through in at least two ticks, the second
\* one suppressed, and the two others are the filtered stream.
C4_Witness ==
    /\ ran
    /\ pc = "filter"
    /\ pending = <<>>
    /\ Len(seen) = 3
    /\ run_got = 1
    /\ ~seen[2].written
    /\ Unwrapped = <<seen[1].event, seen[3].event>>

\* C5: an input event appended after the reader was registered is yielded by
\* exactly one read(): the first one made after it was appended. Events older
\* than the last read() were yielded once, the events appended since were not
\* yielded yet, and a read() leaves none of them behind.
C5_ReadExactlyOnce ==
    /\ DOMAIN read_count = DOMAIN input_events
    /\ built =>
          \A i \in DOMAIN input_events :
              i > input_base =>
                  read_count[i] =
                      (IF i <= Len(input_events) - fresh THEN 1 ELSE 0)
    /\ pc = "filter" => fresh = 0

\* C5 witness: the second tick has read its event, and the event of the first
\* tick was not read again.
C5_Witness ==
    /\ ran
    /\ pc = "filter"
    /\ run_got = 1
    /\ Len(input_events) = input_base + 2
    /\ read_count[input_base + 1] = 1
    /\ read_count[input_base + 2] = 1

\* C6: an invocation of run() that follows another with no input event
\* appended in between reads nothing and writes nothing to the filtered
\* stream, whatever the capture flags are.
C6_SecondDrainEmpty ==
    (/\ ran
     /\ pc = "filter"
     /\ run_fresh = 0)
    => /\ run_got = 0
       /\ pending = <<>>
       /\ run_emitted = 0

\* C6 witness: such a second invocation, after one that wrote an event, with
\* a capture flag clear.
C6_Witness ==
    /\ ran
    /\ pc = "filter"
    /\ run_fresh = 0
    /\ run_got = 0
    /\ filtered_events # <<>>
    /\ ~want_capture_mouse


\* C7: with() called while no frame is published makes no call of the
\* callback and leaves the handle unpublished.
C7_WithOutsideFrame ==
    \A i \in DOMAIN with_log :
        with_log[i].ui = None =>
            /\ with_log[i].called = <<>>
            /\ with_log[i].after = None

\* C7 witness: with() was called before the first frame and again after a
\* frame was withdrawn.
C7_Witness ==
    /\ Len(with_log) = 2
    /\ with_log[1].ui = None
    /\ with_log[2].ui = None
    /\ frames = 1
    /\ ~in_frame

\* C8: with() called between publish and withdraw calls the callback exactly
\* once, with the published frame, and leaves that frame published.
C8_WithInsideFrame ==
    \A i \in DOMAIN with_log :
        with_log[i].ui # None =>
            /\ with_log[i].called = <<with_log[i].ui[1]>>
            /\ with_log[i].after = with_log[i].ui

\* C8 witness: with() was called twice within the second frame.
C8_Witness ==
    /\ Len(with_log) = 2
    /\ with_log[1].ui = Some(2)
    /\ with_log[2].called = <<2>>
    /\ in_frame
    /\ CURRENT_UI = Some(2)

\* C9: the current-frame handle is non-null only between a publish and the
\* withdraw that matches it, and then holds the frame of that publish.
C9_HandleOnlyInFrame ==
    /\ CURRENT_UI # None => (in_frame /\ CURRENT_UI = Some(frames))
    /\ ~in_frame => CURRENT_UI = None
    /\ \A i \in DOMAIN with_log :
          (with_log[i].ui = None) = (with_log[i].called = <<>>)

\* C9 witness: between the first frame and the second the handle is null and
\* a with() made there was a no-op.
C9_Witness ==
    /\ frames = 1
    /\ ~in_frame
    /\ CURRENT_UI = None
    /\ with_log # <<>>
    /\ with_log[Len(with_log)].called = <<>>

\* C10: no caller holds or uses a reference to a frame that is no longer the
\* published one.
C10_NoUseAfterWithdraw ==
    /\ retained # None => retained = CURRENT_UI
    /\ ~used_after_withdraw


\* The input events appended before the stage was built were yielded by no
\* read() and are not in the filtered stream.
InputBacklogUnread ==
    /\ \A i \in DOMAIN input_events :
          i <= input_base =>
              /\ read_count[i] = 0
              /\ Occurrences(Unwrapped, input_events[i]) = 0
    /\ \A i \in DOMAIN seen : seen[i].event.payload > input_base
    /\ \A i \in DOMAIN pending : pending[i].payload > input_base

\* The step that builds the stage leaves both readers at the tail of their
\* channels, and no later step moves a reader back.
ReadersFromTail ==
    /\ (~built /\ built') =>
          /\ input_reader' = Len(input_events')
          /\ winit_reader' = Len(winit_events')
    /\ (built /\ built') =>
          /\ input_reader' >= input_reader
          /\ winit_reader' >= winit_reader

\* C11: build() registers both readers at the current tail of their
\* channels: what was appended to the input or the windowing channel before
\* the stage was built is read by no later run() and never reaches the
\* filtered stream.
C11_NoBacklogReplayed ==
    /\ []InputBacklogUnread
    /\ [][ReadersFromTail]_vars

\* C11 witness: one input event and one windowing event were there when the
\* stage was built; a later input event went through a run and is the whole
\* filtered stream.
C11_Witness ==
    /\ built
    /\ ran
    /\ input_base = 1
    /\ Len(winit_events) = 1
    /\ winit_reader = 1
    /\ Len(input_events) = 2
    /\ read_count = <<0, 1>>
    /\ Unwrapped = <<input_events[2]>>


\* s is a prefix of t
IsPrefix(s, t) == Len(s) <= Len(t) /\ SubSeq(t, 1, Len(s)) = s

\* A step of run(): it starts in run() or ends in it.
RunStep == pc # "idle" \/ pc' # "idle"

\* What a step of run() may do: append to the filtered stream and move its
\* two readers forward. The two source channels, the capture flags and the
\* registration of the stage stay as they are.
RunOnlyConsumes ==
    RunStep =>
        /\ input_events' = input_events
        /\ winit_events' = winit_events
        /\ want_capture_mouse' = want_capture_mouse
        /\ want_capture_keyboard' = want_capture_keyboard
        /\ built' = built
        /\ input_base' = input_base
        /\ IsPrefix(filtered_events, filtered_events')
        /\ input_reader' >= input_reader
        /\ winit_reader' >= winit_reader

\* C19: run() only consumes. It appends nothing to the input channel or to
\* the windowing channel and leaves want_capture_mouse and
\* want_capture_keyboard unchanged; its only writes are appends to the
\* filtered stream and the advance of its two readers.
C19_RunOnlyConsumes == [][RunOnlyConsumes]_vars

\* C19 witness: a run under a set capture flag has drained a windowing event,
\* read two input events and written one of them.
C19_Witness ==
    /\ pc = "filter"
    /\ pending = <<>>
    /\ run_got = 2
    /\ run_emitted = 1
    /\ winit_reader = 1
    /\ want_capture_mouse

\* C20: every run() drains the windowing channel to its tail and does nothing
\* else with those events. They are not in the filtered stream and do not
\* change it, and the two readers are independent: after the windowing drain
\* the input reader still marks exactly the input events not read yet, and
\* the read of the input channel leaves the windowing reader at its tail.
C20_WinitDrainedOnly ==
    /\ pc \in {"input", "filter"} => winit_reader = Len(winit_events)
    /\ (built /\ pc \in {"idle", "winit", "input"}) =>
          input_reader + fresh = Len(input_events)
    /\ pc = "filter" => input_reader = Len(input_events)
    /\ winit_reader <= Len(winit_events)
    /\ \A i \in DOMAIN filtered_events : Unmodified(Unwrapped[i])
    /\ Unwrapped = SeenWritten
    /\ SeenEvents \o pending =
           SubSeq(input_events, input_base + 1, input_reader)
    /\ Len(filtered_events) <= Len(input_events) - input_base

\* C20 witness: a run that drained two windowing events has read the one
\* input event there was and written it.
C20_Witness ==
    /\ pc = "filter"
    /\ pending = <<>>
    /\ Len(winit_events) = 2
    /\ winit_reader = 2
    /\ run_got = 1
    /\ Len(filtered_events) = 1


\* C12: the capture flags run() reads when it classifies an event in a tick
\* are those the frame-begin of that same tick computed.
C12_FlagsOfSameTick ==
    (pc = "filter" /\ classified # None) => flags_tick = tick

\* C13: in every tick "imgui_input_system" runs only after "input_system"
\* and "window" have run in that tick.
C13_RunsAfterDependencies ==
    (tick >= 1 /\ (pc # "idle" \/ stage["imgui_input_system"] = "done")) =>
        /\ stage["input_system"] = "done"
        /\ stage["window"] = "done"

\* C13 witness: in the second tick run() has read what "input_system"
\* appended in that tick, before the render pass of the tick.
C13_Witness ==
    /\ tick = 2
    /\ pc = "filter"
    /\ run_got = 1
    /\ stage["input_system"] = "done"
    /\ stage["window"] = "done"
    /\ stage["render"] = "pending"



\* The run has the guard of line 52
RunHolds == pc \in {"winit", "input", "filter"}

\* The render pass has its guard
RenderHolds == render_pc \in {"holding", "framed"}

\* Nothing of a run has happened: no read, no write, no guard
RunUntouched ==
    /\ lock # "imgui_input_system"
    /\ pending = <<>>
    /\ classified = None
    /\ run_got = 0
    /\ run_emitted = 0
    /\ input_reader + fresh = Len(input_events)
    /\ \A i \in 1..Len(input_events) :
          i > Len(input_events) - fresh => read_count[i] = 0

\* The step in which the panic of line 52 is raised
PanicStep == pc # "panicked" /\ pc' = "panicked"

\* A run that starts on a poisoned mutex ends in the panic
PoisonSurfaces == (poisoned /\ pc = "idle" /\ pc' # "idle") => pc' = "panicked"

\* C14: when the lock cannot be acquired because it is poisoned, the run
\* panics instead of going on: it moves neither reader and writes nothing to
\* the output channel, so the events appended since the last run stay unread.
C14_PoisonedLockAborts ==
    /\ [](pc = "panicked" => poisoned /\ RunUntouched)
    /\ [][PanicStep =>
            UNCHANGED <<input_reader, winit_reader, filtered_events,
                        input_events, winit_events>>]_vars
    /\ [][PoisonSurfaces]_vars

C14_Witness ==
    /\ pc = "panicked"
    /\ ran
    /\ fresh = 1
    /\ winit_reader < Len(winit_events)
    /\ filtered_events # <<>>

RunSeen ==
    SubSeq(seen, Len(seen) - (run_got - Len(pending)) + 1, Len(seen))

SameDecision(S) ==
    \A i, j \in 1..Len(RunSeen) :
        (RunSeen[i].event.kind \in S /\ RunSeen[j].event.kind \in S)
            => RunSeen[i].written = RunSeen[j].written

FlagsStableInRun ==
    (RunHolds \/ RunHolds')
        => UNCHANGED <<want_capture_mouse, want_capture_keyboard>>

\* C16: the capture flags do not change from the moment the run takes the
\* lock until it returns, so all pointer events of one run get the same
\* decision and all keyboard events of one run get the same decision.
C16_FlagsStableDuringRun ==
    /\ [](RunHolds => SameDecision(PointerKinds) /\ SameDecision(KeyboardKinds))
    /\ [][FlagsStableInRun]_vars

C16_Witness ==
    /\ pc = "filter"
    /\ pending = <<>>
    /\ run_got = 3
    /\ \E i, j \in 1..Len(RunSeen) :
          /\ i < j
          /\ RunSeen[i].event.kind = "MouseMoved"
          /\ RunSeen[j].event.kind = "MouseMoved"
          /\ ~RunSeen[i].written
    /\ render_pc = "waiting"

\* Some party can move the mutex on: the holder has a step, or the mutex is
\* free
LockMovesOn ==
    \/ lock = "free"
    \/ lock = "imgui_input_system"
          /\ ENABLED (RunReadWinit \/ RunReadInput \/ RunFilter \/ RunUnlock)
    \/ lock = "render"
          /\ ENABLED (RenderNewFrame \/ RenderUnlock \/ RenderPanic)

\* C17: the run has released the lock when it has returned, nothing blocks
\* for ever, and a render pass waiting for the lock gets its answer.
C17_LockReleased ==
    /\ [](pc \in {"idle", "panicked"} => lock # "imgui_input_system")
    /\ []LockMovesOn
    /\ (render_pc = "waiting") ~> (render_pc # "waiting")

C17_Witness ==
    /\ render_pc = "framed"
    /\ lock = "render"
    /\ pc = "idle"
    /\ ran
    /\ Len(filtered_events) = 2

\* C18: the shared GUI context is constructed exactly once, and a context
\* the host state already holds is never replaced by a later build.
C18_ContextBuiltOnce ==
    /\ created <= 1
    /\ ~replaced

====
